---- MODULE Spec2Model ----
(***************************************************************************)
(* StatVid ingestion: the YouTube client (retry wrapper, batch lookups,    *)
(* pagination), the activity window calculator, the balanced selector and  *)
(* the channel discovery run, modelled from src/src/statvid/ingest.        *)
(*                                                                         *)
(* Each component has its own variables and its own specification; a       *)
(* specification leaves the variables of the other components at their     *)
(* idle values.                                                            *)
(***************************************************************************)
EXTENDS Integers, Sequences, FiniteSets, TLC

(***************************************************************************)
(* State                                                                   *)
(***************************************************************************)
\* Balanced Selector: _pick_balanced_channels
VARIABLES
    df,           \* the candidate table: a sequence of rows, row p has index label p-1
    target,       \* the requested number of rows
    sub_bucket,   \* work["sub_bucket"]: position -> bucket label
    per_bucket,   \* rows taken per bucket
    todo,         \* bucket labels the loop of line 119 has not visited yet, ascending
    selections,   \* the list of per-bucket frames
    chosen,       \* the concatenation of selections (before backfill)
    selected,     \* the returned frame
    sel_pc        \* position in _pick_balanced_channels

selVars == <<df, target, sub_bucket, per_bucket, todo, selections, chosen, selected, sel_pc>>

\* Retry wrapper: YouTubeClient._execute
VARIABLES
    max_retries,  \* self.max_retries
    attempt,      \* the loop variable of line 43
    history,      \* what request.execute() did on each call so far, in order
    sleeps,       \* the time.sleep calls so far: the factor 2**attempt of each
    rt_result,    \* the returned response or the propagated exception
    rt_pc         \* position in _execute

rtVars == <<max_retries, attempt, history, sleeps, rt_result, rt_pc>>

\* Paginated operations: search_videos_by_category, fetch_playlist_items
VARIABLES
    pg_op,        \* which operation runs: "search" or "playlist"
    page_size,    \* maxResults of each request
    max_pages,    \* the caller-supplied page cap
    page_token,   \* page_token / token: the continuation token of the next request
    pages_fetched,\* pages_fetched / pages
    items,        \* the accumulated items
    requests,     \* the pageToken of every request issued so far, in order
    responses,    \* every response received so far, in order
    pg_pc         \* position in the operation

pgVars == <<pg_op, page_size, max_pages, page_token, pages_fetched, items, requests, responses, pg_pc>>

\* Activity Window Calculator: _count_recent_uploads
VARIABLES
    uploads,      \* the playlist items given to the call
    lookback_days,\* the lookback window in days
    now,          \* datetime.now(timezone.utc) at the call, in hours
    threshold,    \* now - timedelta(days=lookback_days)
    count,        \* the running count
    video_ids,    \* the video ids collected so far
    cr_i,         \* the number of items the loop of line 62 has visited
    cr_pc         \* position in _count_recent_uploads

crVars == <<uploads, lookback_days, now, threshold, count, video_ids, cr_i, cr_pc>>

\* Batch lookups: fetch_video_metadata, fetch_channel_metadata
VARIABLES
    bt_op,        \* which operation runs: "videos" or "channels"
    input_ids,    \* video_ids / channel_ids as given; 0 is an empty (falsy) identifier
    ids,          \* the identifiers kept by line 65 / 80
    bt_i,         \* the loop variable i of line 67 / 82
    bt_requests,  \* the chunk of every request issued so far, in order
    bt_responses, \* the items of every response received so far, in order
    results,      \* the accumulated results
    bt_pc         \* position in the operation

btVars == <<bt_op, input_ids, ids, bt_i, bt_requests, bt_responses, results, bt_pc>>

\* Top-level discovery run: discover_channels
VARIABLES
    remote,        \* which answers the remote API may give in this run (see Remote*)
    categories,    \* the category ids of CATEGORY_MAP, in iteration order
    per_category,  \* per_category
    overfetch_factor, \* overfetch_factor
    cat_i,         \* how many categories the loop of line 295 has entered
    run_selections,\* selections (discover_channels)
    returned,      \* what _discover_category returned for each category so far
    final_df,      \* final_df
    writes,        \* every write_parquet call so far, in order: path and rows
    run_error,     \* the exception that left discover_channels, if any
    run_pc         \* position in discover_channels

runVars == <<remote, categories, per_category, overfetch_factor, cat_i, run_selections,
             returned, final_df, writes, run_error, run_pc>>

\* Category Discovery Orchestrator: _discover_category
VARIABLES
    search_items,  \* search_items
    channel_ids,   \* channel_ids after the dedup loop (lines 209-215)
    lookup_ids,    \* channel_ids after line 222, as passed to fetch_channel_metadata
    channel_meta,  \* channel_meta
    channels_df,   \* channels_df
    candidates,    \* candidates
    act_i,         \* how many candidates the loop of line 243 has visited
    activity_rows, \* activity_rows
    playlist_requests, \* the playlist ids fetch_playlist_items was called with
    cat_selected,  \* selected (_discover_category)
    cat_none,      \* whether _discover_category returns None
    dc_pc          \* position in _discover_category

dcVars == <<search_items, channel_ids, lookup_ids, channel_meta, channels_df, candidates,
            act_i, activity_rows, playlist_requests, cat_selected, cat_none, dc_pc>>

\* Channel uploads: YouTubeClient.search_channel_uploads
VARIABLES
    limit,             \* limit
    playlist_len,      \* remote: the number of items in the channel's uploads playlist
    no_video_id,       \* remote: the playlist positions whose item carries no videoId
    su_offset,         \* remote: how many playlist items the pages served so far cover
    uploads_playlist,  \* uploads_playlist
    su_max_pages,      \* max_pages as passed to fetch_playlist_items
    su_page_size,      \* page_size as passed to fetch_playlist_items
    su_token,          \* token (fetch_playlist_items)
    su_pages,          \* pages (fetch_playlist_items)
    su_items,          \* items
    su_requests,       \* the playlistItems.list requests issued, in order
    su_responses,      \* the items of each page response, in order
    su_video_ids,      \* video_ids
    su_pc              \* position in search_channel_uploads

suVars == <<limit, playlist_len, no_video_id, su_offset, uploads_playlist, su_max_pages,
            su_page_size, su_token, su_pages, su_items, su_requests, su_responses,
            su_video_ids, su_pc>>

\* What each component's actions leave alone: the other components' variables.
selOthers == <<rtVars, pgVars, crVars, btVars, runVars, dcVars, suVars>>
rtOthers == <<selVars, pgVars, crVars, btVars, runVars, dcVars, suVars>>
pgOthers == <<selVars, rtVars, crVars, btVars, runVars, dcVars, suVars>>
crOthers == <<selVars, rtVars, pgVars, btVars, runVars, dcVars, suVars>>
btOthers == <<selVars, rtVars, pgVars, crVars, runVars, dcVars, suVars>>
runOthers == <<selVars, rtVars, pgVars, crVars, btVars, suVars>>
suOthers == <<selVars, rtVars, pgVars, crVars, btVars, runVars, dcVars>>

vars == <<selVars, rtVars, pgVars, crVars, btVars, runVars, dcVars, suVars>>

\* The value of an absent key / Python None.
None == "None"

Min(a, b) == IF a <= b THEN a ELSE b
Max(a, b) == IF a >= b THEN a ELSE b

Range(s) == {s[i] : i \in 1..Len(s)}

\* s[:k] for k >= 0 (list slicing, DataFrame.head).
Head_(s, k) == SubSeq(s, 1, Min(k, Len(s)))

RECURSIVE Concat(_)
\* pd.concat / list.extend over a sequence of sequences, in order.
Concat(ss) == IF ss = <<>> THEN <<>> ELSE Head(ss) \o Concat(Tail(ss))

(***************************************************************************)
(* Balanced Selector: _pick_balanced_channels (ingest.py 104-126)          *)
(***************************************************************************)
\* Bounds of the selector's inputs.
MaxCand == 5
MaxTarget == 6

\* Subscriber counts enter the selector only through comparisons (nunique, rank,
\* sort), so the inputs are the weak orderings of the rows: the counts of a table
\* of n rows are exactly 1..m for some m <= n.
DenseCounts(n) ==
    {f \in [1..n -> 1..n] : \A v \in 1..n : (\E p \in 1..n : f[p] >= v) => (\E p \in 1..n : f[p] = v)}

\* A candidate table with pairwise distinct channel ids (the row's position names it).
Tables == UNION {{[p \in 1..n |-> [id |-> p, subscriberCount |-> f[p]]] : f \in DenseCounts(n)} : n \in 0..MaxCand}

\* Series.nunique()
NUnique(vals) == Cardinality(vals)

\* work["subscriberCount"].rank(method="first"): ties ranked in order of appearance.
RankFirst(t, p) ==
    1 + Cardinality({q \in 1..Len(t) : t[q].subscriberCount < t[p].subscriberCount})
      + Cardinality({q \in 1..(p - 1) : t[q].subscriberCount = t[p].subscriberCount})

\* bins = min(5, max(1, nunique))
Bins(t) == Min(5, Max(1, NUnique({t[p].subscriberCount : p \in 1..Len(t)})))

\* pd.qcut(ranks, q=bins, labels=False): the ranks are 1..n, the k-th quantile edge is
\* 1 + (n-1)*k/bins, intervals are right-closed and the lowest edge is included; the
\* label of rank r is the number of edges strictly below r, minus one.
QCut(r, n, bins) ==
    IF r = 1 THEN 0
    ELSE Cardinality({k \in 0..bins : (n - 1) * k < (r - 1) * bins}) - 1

RECURSIVE SortedSeq(_)
\* sorted(set of integers)
SortedSeq(S) ==
    IF S = {} THEN <<>>
    ELSE LET m == CHOOSE x \in S : \A y \in S : x <= y IN <<m>> \o SortedSeq(S \ {m})

RECURSIVE DescOrders(_, _)
\* sort_values("subscriberCount", ascending=False) of the rows at positions P of t:
\* every order that is descending by count. The default sort kind is not stable, so
\* rows with equal counts may come out in any order.
DescOrders(t, P) ==
    IF P = {} THEN {<<>>}
    ELSE LET top == {p \in P : \A q \in P : t[q].subscriberCount <= t[p].subscriberCount}
         IN UNION {{<<t[p]>> \o s : s \in DescOrders(t, P \ {p})} : p \in top}

\* per_bucket = max(1, target // max(1, nunique(sub_bucket)))
PerBucket(tgt, labels) == Max(1, tgt \div Max(1, NUnique(labels)))

\* work.drop(chosen.index, errors="ignore"): chosen was concatenated with
\* ignore_index=True, so its index is 0..len(chosen)-1 and the rows dropped from work
\* are the ones carrying those labels, i.e. the first len(chosen) rows of work.
Remaining(t, ch) == {p \in 1..Len(t) : (p - 1) \notin 0..(Len(ch) - 1)}

TruncateNone(s, tgt) == s
\* chosen.head(target)
Truncate(s, tgt) == Head_(s, tgt)

\* work["sub_bucket"]: the bucket label of every row.
BucketLabels(t) == [p \in 1..Len(t) |-> QCut(RankFirst(t, p), Len(t), Bins(t))]

\* work[work["sub_bucket"] == bucket].sort_values(...).head(per_bucket), every outcome.
BucketHeads(t, labels, bucket, quota) ==
    {Head_(s, quota) : s \in DescOrders(t, {p \in 1..Len(t) : labels[p] = bucket})}

\* lines 124-126: the backfilled and truncated table, every outcome.
Backfilled(t, ch, tgt) ==
    {Truncate(ch \o Head_(s, tgt - Len(ch)), tgt) : s \in DescOrders(t, Remaining(t, ch))}

RECURSIVE AllSelections(_, _, _, _)
\* lines 117-122: the concatenated per-bucket selections over the buckets in order,
\* every outcome.
AllSelections(t, labels, buckets, quota) ==
    IF buckets = <<>> THEN {<<>>}
    ELSE {h \o rest : h \in BucketHeads(t, labels, Head(buckets), quota),
                      rest \in AllSelections(t, labels, Tail(buckets), quota)}

\* _pick_balanced_channels as a whole: every table a call may return.
PickBalancedChannels(t, tgt) ==
    IF t = <<>> THEN {t}
    ELSE LET labels == BucketLabels(t)
             quota == PerBucket(tgt, Range(labels))
         IN UNION {IF Len(ch) < tgt THEN Backfilled(t, ch, tgt) ELSE {Truncate(ch, tgt)} :
                      ch \in AllSelections(t, labels, SortedSeq(Range(labels)), quota)}

SelInit ==
    /\ df \in Tables
    /\ target \in 0..MaxTarget
    /\ sub_bucket = <<>>
    /\ per_bucket = 0
    /\ todo = <<>>
    /\ selections = <<>>
    /\ chosen = <<>>
    /\ selected = <<>>
    /\ sel_pc = "start"

SelIdle ==
    /\ df = <<>>
    /\ target = 0
    /\ sub_bucket = <<>>
    /\ per_bucket = 0
    /\ todo = <<>>
    /\ selections = <<>>
    /\ chosen = <<>>
    /\ selected = <<>>
    /\ sel_pc = "idle"

\* lines 106-107: an empty table is returned as it is.
ReturnEmpty ==
    /\ sel_pc = "start"
    /\ df = <<>>
    /\ selected' = df
    /\ sel_pc' = "done"
    /\ UNCHANGED <<df, target, sub_bucket, per_bucket, todo, selections, chosen>>
    /\ UNCHANGED selOthers

\* lines 108-118: bucket labels and the per-bucket quota.
Bucketize ==
    /\ sel_pc = "start"
    /\ df # <<>>
    /\ LET labels == BucketLabels(df)
       IN /\ sub_bucket' = labels
          /\ per_bucket' = PerBucket(target, Range(labels))
          /\ todo' = SortedSeq(Range(labels))
    /\ selections' = <<>>
    /\ sel_pc' = "buckets"
    /\ UNCHANGED <<df, target, chosen, selected>>
    /\ UNCHANGED selOthers

\* lines 119-121: one iteration of the loop over the buckets.
SelectBucket ==
    /\ sel_pc = "buckets"
    /\ todo # <<>>
    /\ \E s \in BucketHeads(df, sub_bucket, Head(todo), per_bucket) :
          selections' = Append(selections, s)
    /\ todo' = Tail(todo)
    /\ UNCHANGED <<df, target, sub_bucket, per_bucket, chosen, selected, sel_pc>>
    /\ UNCHANGED selOthers

\* line 122: chosen = pd.concat(selections, ignore_index=True)
ConcatSelections ==
    /\ sel_pc = "buckets"
    /\ todo = <<>>
    /\ chosen' = Concat(selections)
    /\ sel_pc' = "concat"
    /\ UNCHANGED <<df, target, sub_bucket, per_bucket, todo, selections, selected>>
    /\ UNCHANGED selOthers

\* lines 123-126 with len(chosen) < target: backfill, then truncate and return.
Backfill ==
    /\ sel_pc = "concat"
    /\ Len(chosen) < target
    /\ selected' \in Backfilled(df, chosen, target)
    /\ sel_pc' = "done"
    /\ UNCHANGED <<df, target, sub_bucket, per_bucket, todo, selections, chosen>>
    /\ UNCHANGED selOthers

\* lines 123, 126 with len(chosen) >= target: truncate and return.
ReturnChosen ==
    /\ sel_pc = "concat"
    /\ Len(chosen) >= target
    /\ selected' = Truncate(chosen, target)
    /\ sel_pc' = "done"
    /\ UNCHANGED <<df, target, sub_bucket, per_bucket, todo, selections, chosen>>
    /\ UNCHANGED selOthers

SelNext ==
    \/ ReturnEmpty
    \/ Bucketize
    \/ SelectBucket
    \/ ConcatSelections
    \/ Backfill
    \/ ReturnChosen

(***************************************************************************)
(* Retry wrapper: YouTubeClient._execute (youtube_client.py 41-61)         *)
(***************************************************************************)
\* Bound of the retry budget (the constructor's default is 3).
MaxRetries == 3

\* request.execute() returning its response, as an entry of the history.
Ok == 200
\* The response itself.
Response == <<"response", Ok>>

\* HttpError statuses the remote API answers with; NoStatus is an HttpError whose
\* resp carries no status (getattr(..., None)).
NoStatus == 0
Statuses == {400, 401, 403, 404, 429, 500, 503, NoStatus}

TransientAll == Statuses
\* line 48: status in (403, 500, 503)
Transient == {403, 500, 503}

\* 2**attempt
RECURSIVE Pow2(_)
Pow2(n) == IF n <= 0 THEN 1 ELSE 2 * Pow2(n - 1)

ShouldRetryOffByOne(status, att, maxr) == status \in Transient /\ att + 1 < maxr
\* line 48: status in (403, 500, 503) and attempt < self.max_retries
ShouldRetry(status, att, maxr) == status \in Transient /\ att < maxr

RtInit ==
    /\ max_retries \in -1..MaxRetries
    /\ attempt = 0
    /\ history = <<>>
    /\ sleeps = <<>>
    /\ rt_result = <<"none", 0>>
    /\ rt_pc = "loop"

RtIdle ==
    /\ max_retries = 0
    /\ attempt = 0
    /\ history = <<>>
    /\ sleeps = <<>>
    /\ rt_result = <<"none", 0>>
    /\ rt_pc = "idle"

\* lines 43-45: request.execute() returns; the response is returned at once.
ExecuteReturns ==
    /\ rt_pc = "loop"
    /\ attempt < max_retries + 1
    /\ history' = Append(history, Ok)
    /\ rt_result' = Response
    /\ rt_pc' = "returned"
    /\ UNCHANGED <<max_retries, attempt, sleeps>>
    /\ UNCHANGED rtOthers

\* lines 46-59: HttpError with a retryable status and budget left: back off.
ExecuteRetries ==
    /\ rt_pc = "loop"
    /\ attempt < max_retries + 1
    /\ \E status \in Statuses :
          /\ ShouldRetry(status, attempt, max_retries)
          /\ history' = Append(history, status)
    /\ rt_pc' = "sleep"
    /\ UNCHANGED <<max_retries, attempt, sleeps, rt_result>>
    /\ UNCHANGED rtOthers

\* lines 49-59: time.sleep(backoff_seconds * 2**attempt + jitter), then the next
\* iteration of the loop.
Sleep ==
    /\ rt_pc = "sleep"
    /\ sleeps' = Append(sleeps, Pow2(attempt))
    /\ attempt' = attempt + 1
    /\ rt_pc' = "loop"
    /\ UNCHANGED <<max_retries, history, rt_result>>
    /\ UNCHANGED rtOthers

\* lines 46-48, 60: any other HttpError, or no budget left: re-raised.
ExecuteRaises ==
    /\ rt_pc = "loop"
    /\ attempt < max_retries + 1
    /\ \E status \in Statuses :
          /\ ~ShouldRetry(status, attempt, max_retries)
          /\ history' = Append(history, status)
          /\ rt_result' = <<"HttpError", status>>
    /\ rt_pc' = "raised"
    /\ UNCHANGED <<max_retries, attempt, sleeps>>
    /\ UNCHANGED rtOthers

\* line 61: the loop ran out without returning or raising (only with max_retries < 0).
ExceededRetries ==
    /\ rt_pc = "loop"
    /\ ~(attempt < max_retries + 1)
    /\ rt_result' = <<"RuntimeError", -1>>
    /\ rt_pc' = "raised"
    /\ UNCHANGED <<max_retries, attempt, history, sleeps>>
    /\ UNCHANGED rtOthers

RtNext ==
    \/ ExecuteReturns
    \/ ExecuteRetries
    \/ Sleep
    \/ ExecuteRaises
    \/ ExceededRetries

(***************************************************************************)
(* Paginated operations: search_videos_by_category (youtube_client.py      *)
(* 93-124) and fetch_playlist_items (139-163)                              *)
(***************************************************************************)
\* Bounds of the pagination inputs and of a page's length.
MaxPages == 3
MaxPageItems == 2

\* Continuation tokens the remote API hands out.
Tokens == {"T1", "T2"}

\* What a page response may be: its "items" key is absent (hasItems is FALSE) or
\* holds at most maxResults items, its "nextPageToken" is absent or a token. An item
\* is named by the page that carried it and its place in that page.
PageResponses(pageNo, size) ==
    {[hasItems |-> FALSE, items |-> <<>>, nextPageToken |-> tok] : tok \in {None} \cup Tokens}
    \cup
    {[hasItems |-> TRUE, items |-> its, nextPageToken |-> tok] :
        its \in {[j \in 1..n |-> <<pageNo, j>>] : n \in 0..Min(size, MaxPageItems)},
        tok \in {None} \cup Tokens}

\* resp.get("items", [])
GetItems(resp) == IF resp.hasItems THEN resp.items ELSE <<>>

LoopGuardOffByOne(fetched, cap) == fetched <= cap
\* while pages_fetched < max_pages
LoopGuard(fetched, cap) == fetched < cap

StopAfterNever(tok) == FALSE
\* if not page_token: break
StopAfter(tok) == tok = None

PgInit ==
    /\ pg_op \in {"search", "playlist"}
    /\ page_size \in 1..MaxPageItems
    /\ max_pages \in 0..MaxPages
    /\ page_token = None
    /\ pages_fetched = 0
    /\ items = <<>>
    /\ requests = <<>>
    /\ responses = <<>>
    /\ pg_pc = "loop"

PgIdle ==
    /\ pg_op = "none"
    /\ page_size = 0
    /\ max_pages = 0
    /\ page_token = None
    /\ pages_fetched = 0
    /\ items = <<>>
    /\ requests = <<>>
    /\ responses = <<>>
    /\ pg_pc = "idle"

\* One iteration of the while loop whose request succeeds: the request carries
\* page_token, the response's items are appended and its token kept; the loop is
\* left when the response carries no token.
PageStep ==
    /\ pg_pc = "loop"
    /\ LoopGuard(pages_fetched, max_pages)
    /\ requests' = Append(requests, page_token)
    /\ \E resp \in PageResponses(pages_fetched + 1, page_size) :
          /\ responses' = Append(responses, resp)
          /\ items' = items \o GetItems(resp)
          /\ page_token' = resp.nextPageToken
          /\ pg_pc' = IF StopAfter(resp.nextPageToken) THEN "exit" ELSE "loop"
    /\ pages_fetched' = pages_fetched + 1
    /\ UNCHANGED <<pg_op, page_size, max_pages>>
    /\ UNCHANGED pgOthers

\* One iteration whose request fails in _execute: the exception leaves the
\* operation, nothing is returned.
PageRaises ==
    /\ pg_pc = "loop"
    /\ LoopGuard(pages_fetched, max_pages)
    /\ requests' = Append(requests, page_token)
    /\ pg_pc' = "raised"
    /\ UNCHANGED <<pg_op, page_size, max_pages, page_token, pages_fetched, items, responses>>
    /\ UNCHANGED pgOthers

\* The loop is over (break, or the guard is false): return items.
PageReturn ==
    /\ \/ pg_pc = "exit"
       \/ pg_pc = "loop" /\ ~LoopGuard(pages_fetched, max_pages)
    /\ pg_pc' = "returned"
    /\ UNCHANGED <<pg_op, page_size, max_pages, page_token, pages_fetched, items, requests, responses>>
    /\ UNCHANGED pgOthers

\* search_videos_by_category, lines 107-123
SearchFetchPage == pg_op = "search" /\ PageStep

\* search_videos_by_category, line 118 raising
SearchPageRaises == pg_op = "search" /\ PageRaises

\* search_videos_by_category, line 124
SearchReturn == pg_op = "search" /\ PageReturn

\* fetch_playlist_items, lines 150-162
PlaylistFetchPage == pg_op = "playlist" /\ PageStep

\* fetch_playlist_items, line 157 raising
PlaylistPageRaises == pg_op = "playlist" /\ PageRaises

\* fetch_playlist_items, line 163
PlaylistReturn == pg_op = "playlist" /\ PageReturn

PgNext ==
    \/ SearchFetchPage
    \/ SearchPageRaises
    \/ SearchReturn
    \/ PlaylistFetchPage
    \/ PlaylistPageRaises
    \/ PlaylistReturn

(***************************************************************************)
(* Activity Window Calculator: _parse_published_at (ingest.py 48-54) and   *)
(* _count_recent_uploads (57-73)                                           *)
(***************************************************************************)
\* Bounds of the calculator's inputs.
MaxUploads == 2
MaxLookback == 1

\* timedelta(days=1) in hours, the unit of time of this model.
HoursPerDay == 24

\* The None datetime returned by _parse_published_at.
NoTime == -1

\* A timestamp field of a playlist item: the key is absent (or null), an empty
\* string, a string that is no ISO timestamp, an ISO timestamp ending in "Z" or one
\* ending in a numeric UTC offset. local is the wall-clock hour written in the
\* string, offset the UTC offset written after it.
Absent == [kind |-> "absent", local |-> 0, offset |-> 0]
Empty == [kind |-> "empty", local |-> 0, offset |-> 0]
Garbage == [kind |-> "garbage", local |-> 0, offset |-> 0]
IsoZ(t) == [kind |-> "isoZ", local |-> t, offset |-> 0]
IsoOffset(t, o) == [kind |-> "isoOffset", local |-> t + o, offset |-> o]

\* bool(published_at): None and "" are falsy.
Truthy(f) == f.kind \notin {"absent", "empty"}

\* a or b
Or(a, b) == IF Truthy(a) THEN a ELSE b

\* _parse_published_at: None for a falsy value or a ValueError, else the instant
\* datetime.fromisoformat(published_at.replace("Z", "+00:00")) denotes.
ParsePublishedAt(f) ==
    IF ~Truthy(f) THEN NoTime
    ELSE IF f.kind = "garbage" THEN NoTime
    ELSE IF f.kind = "isoZ" THEN f.local - 0
    ELSE f.local - f.offset

InWindowStrict(dt, thr) == dt # NoTime /\ dt > thr
\* line 68: dt and dt >= threshold
InWindow(dt, thr) == dt # NoTime /\ dt >= thr

\* The playlist items a call may be given, around the cutoff thr: the two timestamp
\* fields of each item, and whether it carries a videoId. videoId is 0 when the item
\* carries none, else an id naming the item's place in the list.
UploadShapes(thr) ==
    {Absent, Empty, Garbage, IsoZ(thr - 1), IsoZ(thr), IsoOffset(thr, 2)}
    \X {Absent, IsoZ(thr - 1), IsoOffset(thr + 1, 2)}
    \X BOOLEAN

\* The list built from one shape per item.
UploadList(f) ==
    [i \in DOMAIN f |-> [videoPublishedAt |-> f[i][1],
                         publishedAt |-> f[i][2],
                         videoId |-> IF f[i][3] THEN i ELSE 0]]

CrInit ==
    /\ lookback_days \in 0..MaxLookback
    /\ now \in {HoursPerDay * lookback_days + 1, HoursPerDay * lookback_days + 30}
    /\ \E n \in 0..MaxUploads :
          \E f \in [1..n -> UploadShapes(now - HoursPerDay * lookback_days)] :
             uploads = UploadList(f)
    /\ threshold = NoTime
    /\ count = 0
    /\ video_ids = <<>>
    /\ cr_i = 0
    /\ cr_pc = "start"

CrIdle ==
    /\ lookback_days = 0
    /\ now = 0
    /\ uploads = <<>>
    /\ threshold = NoTime
    /\ count = 0
    /\ video_ids = <<>>
    /\ cr_i = 0
    /\ cr_pc = "idle"

\* lines 59-61
CountStart ==
    /\ cr_pc = "start"
    /\ threshold' = now - HoursPerDay * lookback_days
    /\ count' = 0
    /\ video_ids' = <<>>
    /\ cr_pc' = "loop"
    /\ UNCHANGED <<uploads, lookback_days, now, cr_i>>
    /\ UNCHANGED crOthers

\* lines 62-72: one iteration of the loop over the items.
CountItem ==
    /\ cr_pc = "loop"
    /\ cr_i < Len(uploads)
    /\ LET video == uploads[cr_i + 1]
           published_at == Or(video.videoPublishedAt, video.publishedAt)
           dt == ParsePublishedAt(published_at)
       IN IF InWindow(dt, threshold)
          THEN /\ count' = count + 1
               /\ video_ids' = IF video.videoId # 0 THEN Append(video_ids, video.videoId)
                               ELSE video_ids
          ELSE UNCHANGED <<count, video_ids>>
    /\ cr_i' = cr_i + 1
    /\ UNCHANGED <<uploads, lookback_days, now, threshold, cr_pc>>
    /\ UNCHANGED crOthers

\* line 73
CountReturn ==
    /\ cr_pc = "loop"
    /\ cr_i = Len(uploads)
    /\ cr_pc' = "returned"
    /\ UNCHANGED <<uploads, lookback_days, now, threshold, count, video_ids, cr_i>>
    /\ UNCHANGED crOthers

CrNext ==
    \/ CountStart
    \/ CountItem
    \/ CountReturn

(***************************************************************************)
(* Batch lookups: fetch_video_metadata (youtube_client.py 63-76) and       *)
(* fetch_channel_metadata (78-91)                                          *)
(***************************************************************************)
\* YouTube Data API limit for id-based list endpoints.
MAX_IDS_PER_CALL == 50

\* Bounds of the batch inputs: the length of the identifier sequence and the number
\* of distinct identifiers in it.
MaxIds == 101
MaxDistinct == 2

\* The identifier sequences given to a call: n identifiers cycling through d distinct
\* ones, with an empty identifier at every e-th place (none when e = 0).
IdSequence(n, d, e) ==
    [i \in 1..n |-> IF e > 0 /\ i % e = 0 THEN 0 ELSE ((i - 1) % d) + 1]

KeepAll(seq) == seq
\* [vid for vid in video_ids if vid]
NonFalsy(seq) == SelectSeq(seq, LAMBDA x : x # 0)

\* ids[i : i + MAX_IDS_PER_CALL], i counted from 0
Chunk(seq, i) == SubSeq(seq, i + 1, Min(i + MAX_IDS_PER_CALL, Len(seq)))

\* What a lookup response may hold for a chunk: no "items" key (read as []), or one
\* item per identifier of the chunk, each naming the request that returned it.
BatchResponses(reqNo, chunk) ==
    {<<>>, [j \in 1..Len(chunk) |-> <<reqNo, chunk[j]>>]}

BtInit ==
    /\ bt_op \in {"videos", "channels"}
    /\ \E n \in 0..MaxIds, d \in 1..MaxDistinct, e \in {0, 2, 3} :
          input_ids = IdSequence(n, d, e)
    /\ ids = <<>>
    /\ bt_i = 0
    /\ bt_requests = <<>>
    /\ bt_responses = <<>>
    /\ results = <<>>
    /\ bt_pc = "start"

BtIdle ==
    /\ bt_op = "none"
    /\ input_ids = <<>>
    /\ ids = <<>>
    /\ bt_i = 0
    /\ bt_requests = <<>>
    /\ bt_responses = <<>>
    /\ results = <<>>
    /\ bt_pc = "idle"

\* lines 65-66 / 80-81
BatchFilter ==
    /\ bt_pc = "start"
    /\ ids' = NonFalsy(input_ids)
    /\ results' = <<>>
    /\ bt_i' = 0
    /\ bt_pc' = "loop"
    /\ UNCHANGED <<bt_op, input_ids, bt_requests, bt_responses>>
    /\ UNCHANGED btOthers

\* lines 67-75 / 82-90: one iteration of the loop, the request succeeding.
BatchStep ==
    /\ bt_pc = "loop"
    /\ bt_i < Len(ids)
    /\ LET chunk == Chunk(ids, bt_i)
       IN /\ bt_requests' = Append(bt_requests, chunk)
          /\ \E resp \in BatchResponses(Len(bt_requests) + 1, chunk) :
                /\ bt_responses' = Append(bt_responses, resp)
                /\ results' = results \o resp
    /\ bt_i' = bt_i + MAX_IDS_PER_CALL
    /\ UNCHANGED <<bt_op, input_ids, ids, bt_pc>>
    /\ UNCHANGED btOthers

\* line 74 / 89 raising in _execute: the exception leaves the operation.
BatchRaises ==
    /\ bt_pc = "loop"
    /\ bt_i < Len(ids)
    /\ bt_requests' = Append(bt_requests, Chunk(ids, bt_i))
    /\ bt_pc' = "raised"
    /\ UNCHANGED <<bt_op, input_ids, ids, bt_i, bt_responses, results>>
    /\ UNCHANGED btOthers

\* line 76 / 91
BatchReturn ==
    /\ bt_pc = "loop"
    /\ ~(bt_i < Len(ids))
    /\ bt_pc' = "returned"
    /\ UNCHANGED <<bt_op, input_ids, ids, bt_i, bt_requests, bt_responses, results>>
    /\ UNCHANGED btOthers

\* fetch_video_metadata
VideosFilter == bt_op = "videos" /\ BatchFilter
VideosStep == bt_op = "videos" /\ BatchStep
VideosRaises == bt_op = "videos" /\ BatchRaises
VideosReturn == bt_op = "videos" /\ BatchReturn

\* fetch_channel_metadata
ChannelsFilter == bt_op = "channels" /\ BatchFilter
ChannelsStep == bt_op = "channels" /\ BatchStep
ChannelsRaises == bt_op = "channels" /\ BatchRaises
ChannelsReturn == bt_op = "channels" /\ BatchReturn

BtNext ==
    \/ VideosFilter
    \/ VideosStep
    \/ VideosRaises
    \/ VideosReturn
    \/ ChannelsFilter
    \/ ChannelsStep
    \/ ChannelsRaises
    \/ ChannelsReturn

(***************************************************************************)
(* Category Discovery Orchestrator: _normalize_channels_df (ingest.py      *)
(* 83-101), _discover_category (176-266); Top-Level Discovery Run:         *)
(* discover_channels (269-321)                                             *)
(***************************************************************************)
MIN_SUBSCRIBERS == 10000
MIN_UPLOADS_LAST_YEAR == 10
TARGET_CHANNELS_PER_CATEGORY == 50
DEFAULT_OVERFETCH_FACTOR == 4

\* The keys of CATEGORY_MAP, in the order the dict yields them.
CATEGORY_IDS == <<2, 15, 17, 19, 20, 22, 23, 24, 26, 27, 28>>

\* Bounds: the number of categories a run iterates, the length of a search result,
\* the per-category target.
MaxCategories == 2
MaxSearchItems == 2
MaxPerCategory == 2

\* The channels the remote API knows.
Channels == {"UCa", "UCb"}

\* contentDetails.relatedPlaylists.uploads of a channel that has one.
UploadsPlaylistOf(ch) == IF ch = "UCa" THEN "UUa" ELSE "UUb"

\* f"category_{category_id}.parquet" and f"{row['id']}.parquet"
CategoryFile(category_id) ==
    CASE category_id = 2 -> "category_2" [] category_id = 15 -> "category_15"
      [] category_id = 17 -> "category_17" [] category_id = 19 -> "category_19"
      [] category_id = 20 -> "category_20" [] category_id = 22 -> "category_22"
      [] category_id = 23 -> "category_23" [] category_id = 24 -> "category_24"
      [] category_id = 26 -> "category_26" [] category_id = 27 -> "category_27"
      [] OTHER -> "category_28"

\* A channel-lookup answer for one requested id: the channel is not listed in the
\* response at all, or it is listed with its statistics.subscriberCount (a string,
\* numeric or not), its snippet.country (absent or a code) and its
\* contentDetails.relatedPlaylists.uploads (key absent, null, or a playlist id).
Unlisted == [listed |-> FALSE, subscriberCount |-> "absent", country |-> "absent", uploads |-> "absent"]

ListedShapes ==
    {[listed |-> TRUE, subscriberCount |-> sc, country |-> co, uploads |-> up] :
        sc \in {"not-a-number", "9999", "10000"},
        co \in {"absent", "US", "CA"},
        up \in {"absent", "null", "present"}}

\* The answers the remote API may give. "any": every search result up to
\* MaxSearchItems items and every lookup answer. "sparse": a few search results, and
\* channels that are either fully eligible or lack the uploads playlist.
RemoteSearches(profile) ==
    IF profile = "any"
    THEN UNION {[1..n -> Channels \cup {None}] : n \in 0..MaxSearchItems}
    ELSE {<<>>, <<"UCa">>, <<"UCa", "UCb">>}

RemoteShapes(profile) ==
    IF profile = "any"
    THEN ListedShapes \cup {Unlisted}
    ELSE {[listed |-> TRUE, subscriberCount |-> "10000", country |-> "US", uploads |-> up] :
             up \in {"absent", "present"}}

\* The number of uploads in the lookback window that _count_recent_uploads finds in a
\* channel's playlist items.
RemoteRecentCounts == {MIN_UPLOADS_LAST_YEAR - 1, MIN_UPLOADS_LAST_YEAR}

\* A search result: one item per video, item i carrying snippet.channelId refs[i]
\* (None when the item has none).
SearchItems(refs) == [i \in 1..Len(refs) |-> [video |-> i, channelId |-> refs[i]]]

RECURSIVE DedupFrom(_, _)
\* lines 209-215: channel ids in first-seen order, nulls and repeats dropped.
DedupFrom(its, seen) ==
    IF its = <<>> THEN <<>>
    ELSE LET channel_id == Head(its).channelId
         IN IF channel_id # None /\ channel_id \notin seen
            THEN <<channel_id>> \o DedupFrom(Tail(its), seen \cup {channel_id})
            ELSE DedupFrom(Tail(its), seen)

DedupChannelIds(its) == DedupFrom(its, {})

OverfetchTotalMin(target_, factor, n) == Min(target_ * factor, n)
\* line 221: overfetch_total = max(per_category * overfetch_factor, len(channel_ids))
OverfetchTotal(target_, factor, n) == Max(target_ * factor, n)

\* pd.to_numeric(..., errors="coerce").fillna(0).astype(int)
ToNumeric(raw) ==
    CASE raw = "9999" -> 9999
      [] raw = "10000" -> 10000
      [] OTHER -> 0

\* Whether json_normalize gives the frame a column: some item carries the key.
HasColumn(meta, field) == \E i \in 1..Len(meta) : meta[i].shape[field] # "absent"

\* _normalize_channels_df plus lines 226-227: one row per item of channel_meta.
NormalizeChannels(meta, category_id) ==
    [i \in 1..Len(meta) |->
        [id |-> meta[i].id,
         subscriberCount |->
            IF HasColumn(meta, "subscriberCount") THEN ToNumeric(meta[i].shape.subscriberCount) ELSE 0,
         country |->
            IF HasColumn(meta, "country")
            THEN (IF meta[i].shape.country = "absent" THEN None ELSE meta[i].shape.country)
            ELSE "",
         uploads_playlist_id |->
            IF HasColumn(meta, "uploads")
            THEN (IF meta[i].shape.uploads = "present" THEN UploadsPlaylistOf(meta[i].id) ELSE None)
            ELSE None,
         category_id |-> category_id]]

NotNaAlways(x) == TRUE
\* Series.notna()
NotNa(x) == x # None

\* Series.fillna("")
FillNa(x) == IF x = None THEN "" ELSE x

\* lines 231-235: the eligibility filter of one row.
Eligible(row) ==
    /\ row.subscriberCount >= MIN_SUBSCRIBERS
    /\ NotNa(row.uploads_playlist_id)
    /\ FillNa(row.country) = "US"

\* lines 251-254: the row kept for an active channel.
ActivityRow(row, uploads_count) ==
    [id |-> row.id, subscriberCount |-> row.subscriberCount, country |-> row.country,
     uploads_playlist_id |-> row.uploads_playlist_id, category_id |-> row.category_id,
     uploads_last_year |-> uploads_count]

CollectedAlways(sels, none, rows) == Append(sels, rows)
\* lines 309-310: if selected is not None: selections.append(selected)
Collected(sels, none, rows) == IF none THEN sels ELSE Append(sels, rows)

NoSelectionsNever(sels) == FALSE
\* line 312: if not selections
NoSelections(sels) == sels = <<>>

\* The category the loop of line 295 is at.
Category == categories[cat_i]

WriteNothing(dir, name, rows) == writes
WriteParquet(dir, name, rows) == Append(writes, [dir |-> dir, name |-> name, rows |-> rows])

runConfig == <<remote, categories, per_category, overfetch_factor>>

DcIdle ==
    /\ search_items = <<>>
    /\ channel_ids = <<>>
    /\ lookup_ids = <<>>
    /\ channel_meta = <<>>
    /\ channels_df = <<>>
    /\ candidates = <<>>
    /\ act_i = 0
    /\ activity_rows = <<>>
    /\ playlist_requests = <<>>
    /\ cat_selected = <<>>
    /\ cat_none = FALSE
    /\ dc_pc = "idle"

RunStart ==
    /\ cat_i = 0
    /\ run_selections = <<>>
    /\ returned = <<>>
    /\ final_df = <<>>
    /\ writes = <<>>
    /\ run_error = None
    /\ run_pc = "loop"
    /\ DcIdle

\* A run over the first categories of CATEGORY_MAP with the default target and
\* overfetch factor.
RunInit ==
    /\ remote = "sparse"
    /\ \E n \in 1..MaxCategories : categories = SubSeq(CATEGORY_IDS, 1, n)
    /\ per_category = TARGET_CHANNELS_PER_CATEGORY
    /\ overfetch_factor = DEFAULT_OVERFETCH_FACTOR
    /\ RunStart

\* A run over one category, with any answers of the remote API and any target.
CategoryInit ==
    /\ remote = "any"
    /\ categories = SubSeq(CATEGORY_IDS, 1, 1)
    /\ per_category \in 0..MaxPerCategory
    /\ overfetch_factor \in {1, DEFAULT_OVERFETCH_FACTOR}
    /\ RunStart

RunIdle ==
    /\ remote = "none"
    /\ categories = <<>>
    /\ per_category = 0
    /\ overfetch_factor = 0
    /\ cat_i = 0
    /\ run_selections = <<>>
    /\ returned = <<>>
    /\ final_df = <<>>
    /\ writes = <<>>
    /\ run_error = None
    /\ run_pc = "idle"
    /\ DcIdle

\* A request that _execute re-raises inside _discover_category: nothing catches it,
\* it leaves discover_channels.
Propagate ==
    /\ dc_pc' = "raised"
    /\ run_pc' = "raised"
    /\ run_error' = "HttpError"

\* lines 295-308, 190-198: the loop enters _discover_category for the next category.
EnterCategory ==
    /\ run_pc = "loop"
    /\ cat_i < Len(categories)
    /\ cat_i' = cat_i + 1
    /\ run_pc' = "category"
    /\ dc_pc' = "search"
    /\ UNCHANGED <<runConfig, run_selections, returned, final_df, writes, run_error>>
    /\ UNCHANGED <<search_items, channel_ids, lookup_ids, channel_meta, channels_df, candidates,
                   act_i, activity_rows, playlist_requests, cat_selected, cat_none>>
    /\ UNCHANGED runOthers

\* lines 199-205: SEARCH returns.
Search ==
    /\ dc_pc = "search"
    /\ \E refs \in RemoteSearches(remote) : search_items' = SearchItems(refs)
    /\ dc_pc' = "persist_search"
    /\ UNCHANGED <<runVars, channel_ids, lookup_ids, channel_meta, channels_df, candidates,
                   act_i, activity_rows, playlist_requests, cat_selected, cat_none>>
    /\ UNCHANGED runOthers

\* lines 199-205: a search request raises.
SearchRaises ==
    /\ dc_pc = "search"
    /\ Propagate
    /\ UNCHANGED <<runConfig, cat_i, run_selections, returned, final_df, writes>>
    /\ UNCHANGED <<search_items, channel_ids, lookup_ids, channel_meta, channels_df, candidates,
                   act_i, activity_rows, playlist_requests, cat_selected, cat_none>>
    /\ UNCHANGED runOthers

\* lines 206-207: the search result is written.
PersistSearch ==
    /\ dc_pc = "persist_search"
    /\ writes' = WriteParquet("search", CategoryFile(Category), search_items)
    /\ dc_pc' = "dedup"
    /\ UNCHANGED <<runConfig, cat_i, run_selections, returned, final_df, run_error, run_pc>>
    /\ UNCHANGED <<search_items, channel_ids, lookup_ids, channel_meta, channels_df, candidates,
                   act_i, activity_rows, playlist_requests, cat_selected, cat_none>>
    /\ UNCHANGED runOthers

\* lines 209-215 with channel ids found.
Dedup ==
    /\ dc_pc = "dedup"
    /\ DedupChannelIds(search_items) # <<>>
    /\ channel_ids' = DedupChannelIds(search_items)
    /\ dc_pc' = "lookup"
    /\ UNCHANGED <<runVars, search_items, lookup_ids, channel_meta, channels_df, candidates,
                   act_i, activity_rows, playlist_requests, cat_selected, cat_none>>
    /\ UNCHANGED runOthers

\* lines 209-218 with no channel id found: return None.
NoChannelsFound ==
    /\ dc_pc = "dedup"
    /\ DedupChannelIds(search_items) = <<>>
    /\ channel_ids' = <<>>
    /\ cat_none' = TRUE
    /\ dc_pc' = "returned"
    /\ UNCHANGED <<runVars, search_items, lookup_ids, channel_meta, channels_df, candidates,
                   act_i, activity_rows, playlist_requests, cat_selected>>
    /\ UNCHANGED runOthers

\* lines 221-224: OVERFETCH_LOOKUP returns; the response lists the requested
\* channels in request order, each with some shape, or leaves them out.
OverfetchLookup ==
    /\ dc_pc = "lookup"
    /\ LET overfetch_total == OverfetchTotal(per_category, overfetch_factor, Len(channel_ids))
           truncated == Head_(channel_ids, overfetch_total)
       IN /\ lookup_ids' = truncated
          /\ \E answer \in [1..Len(truncated) -> RemoteShapes(remote)] :
                channel_meta' = SelectSeq([i \in 1..Len(truncated) |->
                                              [id |-> truncated[i], shape |-> answer[i]]],
                                          LAMBDA item : item.shape.listed)
    /\ dc_pc' = "persist_channels"
    /\ UNCHANGED <<runVars, search_items, channel_ids, channels_df, candidates,
                   act_i, activity_rows, playlist_requests, cat_selected, cat_none>>
    /\ UNCHANGED runOthers

\* lines 221-224: the channel lookup raises.
LookupRaises ==
    /\ dc_pc = "lookup"
    /\ lookup_ids' = Head_(channel_ids, OverfetchTotal(per_category, overfetch_factor, Len(channel_ids)))
    /\ Propagate
    /\ UNCHANGED <<runConfig, cat_i, run_selections, returned, final_df, writes>>
    /\ UNCHANGED <<search_items, channel_ids, channel_meta, channels_df, candidates,
                   act_i, activity_rows, playlist_requests, cat_selected, cat_none>>
    /\ UNCHANGED runOthers

\* lines 225-228: the channel metadata is normalized and written.
PersistChannels ==
    /\ dc_pc = "persist_channels"
    /\ channels_df' = NormalizeChannels(channel_meta, Category)
    /\ writes' = WriteParquet("channels", CategoryFile(Category), NormalizeChannels(channel_meta, Category))
    /\ dc_pc' = "filter"
    /\ UNCHANGED <<runConfig, cat_i, run_selections, returned, final_df, run_error, run_pc>>
    /\ UNCHANGED <<search_items, channel_ids, lookup_ids, channel_meta, candidates,
                   act_i, activity_rows, playlist_requests, cat_selected, cat_none>>
    /\ UNCHANGED runOthers

\* lines 231-235 with candidates left: FILTER_ELIGIBLE.
FilterEligible ==
    /\ dc_pc = "filter"
    /\ SelectSeq(channels_df, Eligible) # <<>>
    /\ candidates' = SelectSeq(channels_df, Eligible)
    /\ act_i' = 0
    /\ activity_rows' = <<>>
    /\ dc_pc' = "activity"
    /\ UNCHANGED <<runVars, search_items, channel_ids, lookup_ids, channel_meta, channels_df,
                   playlist_requests, cat_selected, cat_none>>
    /\ UNCHANGED runOthers

\* lines 231-239 with no candidate left: return None.
NoEligibleChannels ==
    /\ dc_pc = "filter"
    /\ SelectSeq(channels_df, Eligible) = <<>>
    /\ candidates' = <<>>
    /\ cat_none' = TRUE
    /\ dc_pc' = "returned"
    /\ UNCHANGED <<runVars, search_items, channel_ids, lookup_ids, channel_meta, channels_df,
                   act_i, activity_rows, playlist_requests, cat_selected>>
    /\ UNCHANGED runOthers

\* lines 243-254: ACTIVITY_CHECK of one candidate: its playlist is fetched, its
\* recent uploads counted, its playlist items written, and the row kept if active.
ActivityCheck ==
    /\ dc_pc = "activity"
    /\ act_i < Len(candidates)
    /\ LET row == candidates[act_i + 1]
       IN /\ playlist_requests' = Append(playlist_requests, row.uploads_playlist_id)
          /\ \E uploads_count \in RemoteRecentCounts :
                /\ writes' = WriteParquet("uploads", row.id, <<uploads_count>>)
                /\ activity_rows' =
                      IF uploads_count >= MIN_UPLOADS_LAST_YEAR
                      THEN Append(activity_rows, ActivityRow(row, uploads_count))
                      ELSE activity_rows
    /\ act_i' = act_i + 1
    /\ UNCHANGED <<runConfig, cat_i, run_selections, returned, final_df, run_error, run_pc>>
    /\ UNCHANGED <<search_items, channel_ids, lookup_ids, channel_meta, channels_df, candidates,
                   cat_selected, cat_none, dc_pc>>
    /\ UNCHANGED runOthers

\* line 245: the playlist request of a candidate raises.
PlaylistRaises ==
    /\ dc_pc = "activity"
    /\ act_i < Len(candidates)
    /\ playlist_requests' = Append(playlist_requests, candidates[act_i + 1].uploads_playlist_id)
    /\ Propagate
    /\ UNCHANGED <<runConfig, cat_i, run_selections, returned, final_df, writes>>
    /\ UNCHANGED <<search_items, channel_ids, lookup_ids, channel_meta, channels_df, candidates,
                   act_i, activity_rows, cat_selected, cat_none>>
    /\ UNCHANGED runOthers

\* lines 256-258: no candidate was active: return None.
NoActiveChannels ==
    /\ dc_pc = "activity"
    /\ act_i = Len(candidates)
    /\ activity_rows = <<>>
    /\ cat_none' = TRUE
    /\ dc_pc' = "returned"
    /\ UNCHANGED <<runVars, search_items, channel_ids, lookup_ids, channel_meta, channels_df,
                   candidates, act_i, activity_rows, playlist_requests, cat_selected>>
    /\ UNCHANGED runOthers

\* lines 260-263: SELECT_BALANCED.
SelectBalanced ==
    /\ dc_pc = "activity"
    /\ act_i = Len(candidates)
    /\ activity_rows # <<>>
    /\ cat_selected' \in PickBalancedChannels(activity_rows, per_category)
    /\ dc_pc' = "persist_selection"
    /\ UNCHANGED <<runVars, search_items, channel_ids, lookup_ids, channel_meta, channels_df,
                   candidates, act_i, activity_rows, playlist_requests, cat_none>>
    /\ UNCHANGED runOthers

\* lines 265-266: PERSIST, then return selected.
PersistSelection ==
    /\ dc_pc = "persist_selection"
    /\ writes' = WriteParquet("channel_selection", CategoryFile(Category), cat_selected)
    /\ dc_pc' = "returned"
    /\ UNCHANGED <<runConfig, cat_i, run_selections, returned, final_df, run_error, run_pc>>
    /\ UNCHANGED <<search_items, channel_ids, lookup_ids, channel_meta, channels_df, candidates,
                   act_i, activity_rows, playlist_requests, cat_selected, cat_none>>
    /\ UNCHANGED runOthers

\* lines 309-310: back in discover_channels, a result that is not None is collected;
\* the locals of _discover_category are gone.
Collect ==
    /\ run_pc = "category"
    /\ dc_pc = "returned"
    /\ run_selections' = Collected(run_selections, cat_none, cat_selected)
    /\ returned' = Append(returned, [none |-> cat_none, rows |-> cat_selected])
    /\ run_pc' = "loop"
    /\ search_items' = <<>>
    /\ channel_ids' = <<>>
    /\ lookup_ids' = <<>>
    /\ channel_meta' = <<>>
    /\ channels_df' = <<>>
    /\ candidates' = <<>>
    /\ act_i' = 0
    /\ activity_rows' = <<>>
    /\ playlist_requests' = <<>>
    /\ cat_selected' = <<>>
    /\ cat_none' = FALSE
    /\ dc_pc' = "idle"
    /\ UNCHANGED <<runConfig, cat_i, final_df, writes, run_error>>
    /\ UNCHANGED runOthers

\* lines 312-313: no category gave a result.
RaiseNoChannels ==
    /\ run_pc = "loop"
    /\ cat_i = Len(categories)
    /\ NoSelections(run_selections)
    /\ run_error' = "RuntimeError"
    /\ run_pc' = "raised"
    /\ UNCHANGED <<runConfig, cat_i, run_selections, returned, final_df, writes>>
    /\ UNCHANGED dcVars
    /\ UNCHANGED runOthers

\* lines 315-321: the results are concatenated, written and returned.
PersistCombined ==
    /\ run_pc = "loop"
    /\ cat_i = Len(categories)
    /\ ~NoSelections(run_selections)
    /\ final_df' = Concat(run_selections)
    /\ writes' = WriteParquet("channel_selection", "all_categories", Concat(run_selections))
    /\ run_pc' = "done"
    /\ UNCHANGED <<runConfig, cat_i, run_selections, returned, run_error>>
    /\ UNCHANGED dcVars
    /\ UNCHANGED runOthers

Next ==
    \/ EnterCategory
    \/ Search
    \/ SearchRaises
    \/ PersistSearch
    \/ Dedup
    \/ NoChannelsFound
    \/ OverfetchLookup
    \/ LookupRaises
    \/ PersistChannels
    \/ FilterEligible
    \/ NoEligibleChannels
    \/ ActivityCheck
    \/ PlaylistRaises
    \/ NoActiveChannels
    \/ SelectBalanced
    \/ PersistSelection
    \/ Collect
    \/ RaiseNoChannels
    \/ PersistCombined

(***************************************************************************)
(* Channel uploads: get_uploads_playlist_id (youtube_client.py 126-137),   *)
(* search_channel_uploads (165-183) and the fetch_playlist_items call      *)
(* (139-163) it makes                                                      *)
(***************************************************************************)
\* Bounds: the largest limit asked for, the longest uploads playlist.
MaxLimit == 100
MaxPlaylist == 101

\* A missing or empty videoId (falsy).
NoVideoId == 0

\* The playlist item at position k: its contentDetails.videoId is k, or missing.
PlaylistItem(k, missing) == [position |-> k, videoId |-> IF k \in missing THEN NoVideoId ELSE k]

\* The remote API serves a playlist in order, maxResults items a page, with a
\* nextPageToken exactly when items are left after the page.
PageItems(offset, size, len, missing) ==
    [j \in 1..Min(size, len - offset) |-> PlaylistItem(offset + j, missing)]

PageToken(offset, size, len) == IF offset + size < len THEN "T" ELSE None

\* line 170: max_pages = max(1, limit // MAX_IDS_PER_CALL + 1)
UploadsMaxPages(lim) == Max(1, lim \div MAX_IDS_PER_CALL + 1)

\* line 173: page_size = min(limit, MAX_IDS_PER_CALL)
UploadsPageSize(lim) == Min(lim, MAX_IDS_PER_CALL)

RECURSIVE ExtractFrom(_, _, _)
\* lines 176-182: the video ids of the items in order, items without one skipped,
\* the loop left once limit ids are collected.
ExtractFrom(its, acc, lim) ==
    IF its = <<>> THEN acc
    ELSE LET vid == Head(its).videoId
         IN IF vid # NoVideoId
            THEN (IF Len(acc) + 1 >= lim
                  THEN Append(acc, vid)
                  ELSE ExtractFrom(Tail(its), Append(acc, vid), lim))
            ELSE ExtractFrom(Tail(its), acc, lim)

ExtractVideoIds(its, lim) == ExtractFrom(its, <<>>, lim)

SuInit ==
    /\ limit \in 1..MaxLimit
    /\ playlist_len \in 0..MaxPlaylist
    /\ no_video_id \in {{}, {1}, {MAX_IDS_PER_CALL}}
    /\ su_offset = 0
    /\ uploads_playlist = None
    /\ su_max_pages = 0
    /\ su_page_size = 0
    /\ su_token = None
    /\ su_pages = 0
    /\ su_items = <<>>
    /\ su_requests = <<>>
    /\ su_responses = <<>>
    /\ su_video_ids = <<>>
    /\ su_pc = "lookup"

SuIdle ==
    /\ limit = 0
    /\ playlist_len = 0
    /\ no_video_id = {}
    /\ su_offset = 0
    /\ uploads_playlist = None
    /\ su_max_pages = 0
    /\ su_page_size = 0
    /\ su_token = None
    /\ su_pages = 0
    /\ su_items = <<>>
    /\ su_requests = <<>>
    /\ su_responses = <<>>
    /\ su_video_ids = <<>>
    /\ su_pc = "idle"

suRemote == <<limit, playlist_len, no_video_id>>

\* lines 167, 126-137 and 170-175: the channel lookup lists the channel; its uploads
\* playlist id is returned and fetch_playlist_items is called.
GetUploadsPlaylistId ==
    /\ su_pc = "lookup"
    /\ uploads_playlist' = "UU"
    /\ su_max_pages' = UploadsMaxPages(limit)
    /\ su_page_size' = UploadsPageSize(limit)
    /\ su_pc' = "fetch"
    /\ UNCHANGED <<suRemote, su_offset, su_token, su_pages, su_items, su_requests, su_responses,
                   su_video_ids>>
    /\ UNCHANGED suOthers

\* lines 167-169, 134-136: the channel lookup lists no channel: return [].
NoUploadsPlaylist ==
    /\ su_pc = "lookup"
    /\ uploads_playlist' = None
    /\ su_video_ids' = <<>>
    /\ su_pc' = "returned"
    /\ UNCHANGED <<suRemote, su_offset, su_max_pages, su_page_size, su_token, su_pages, su_items,
                   su_requests, su_responses>>
    /\ UNCHANGED suOthers

\* line 133: the channel lookup raises.
UploadsLookupRaises ==
    /\ su_pc = "lookup"
    /\ su_pc' = "raised"
    /\ UNCHANGED <<suRemote, su_offset, uploads_playlist, su_max_pages, su_page_size, su_token,
                   su_pages, su_items, su_requests, su_responses, su_video_ids>>
    /\ UNCHANGED suOthers

\* lines 150-162: one iteration of the loop of fetch_playlist_items.
UploadsFetchPage ==
    /\ su_pc = "fetch"
    /\ LoopGuard(su_pages, su_max_pages)
    /\ su_requests' = Append(su_requests, [pageToken |-> su_token, maxResults |-> su_page_size])
    /\ LET its == PageItems(su_offset, su_page_size, playlist_len, no_video_id)
           tok == PageToken(su_offset, su_page_size, playlist_len)
       IN /\ su_responses' = Append(su_responses, its)
          /\ su_items' = su_items \o its
          /\ su_token' = tok
          /\ su_pc' = IF StopAfter(tok) THEN "extract" ELSE "fetch"
    /\ su_offset' = Min(su_offset + su_page_size, playlist_len)
    /\ su_pages' = su_pages + 1
    /\ UNCHANGED <<suRemote, uploads_playlist, su_max_pages, su_page_size, su_video_ids>>
    /\ UNCHANGED suOthers

\* line 157: a playlist page request raises.
UploadsPageRaises ==
    /\ su_pc = "fetch"
    /\ LoopGuard(su_pages, su_max_pages)
    /\ su_requests' = Append(su_requests, [pageToken |-> su_token, maxResults |-> su_page_size])
    /\ su_pc' = "raised"
    /\ UNCHANGED <<suRemote, su_offset, uploads_playlist, su_max_pages, su_page_size, su_token,
                   su_pages, su_items, su_responses, su_video_ids>>
    /\ UNCHANGED suOthers

\* line 150 with the page cap reached, line 163.
UploadsFetchReturn ==
    /\ su_pc = "fetch"
    /\ ~LoopGuard(su_pages, su_max_pages)
    /\ su_pc' = "extract"
    /\ UNCHANGED <<suRemote, su_offset, uploads_playlist, su_max_pages, su_page_size, su_token,
                   su_pages, su_items, su_requests, su_responses, su_video_ids>>
    /\ UNCHANGED suOthers

\* lines 176-183: the video ids are extracted and returned.
UploadsReturn ==
    /\ su_pc = "extract"
    /\ su_video_ids' = ExtractVideoIds(su_items, limit)
    /\ su_pc' = "returned"
    /\ UNCHANGED <<suRemote, su_offset, uploads_playlist, su_max_pages, su_page_size, su_token,
                   su_pages, su_items, su_requests, su_responses>>
    /\ UNCHANGED suOthers

SuNext ==
    \/ GetUploadsPlaylistId
    \/ NoUploadsPlaylist
    \/ UploadsLookupRaises
    \/ UploadsFetchPage
    \/ UploadsPageRaises
    \/ UploadsFetchReturn
    \/ UploadsReturn

InitSelect == SelInit /\ RtIdle /\ PgIdle /\ CrIdle /\ BtIdle /\ RunIdle /\ SuIdle

SpecSelect == InitSelect /\ [][SelNext]_vars

InitRetry == RtInit /\ SelIdle /\ PgIdle /\ CrIdle /\ BtIdle /\ RunIdle /\ SuIdle

SpecRetry == InitRetry /\ [][RtNext]_vars

InitPages == PgInit /\ SelIdle /\ RtIdle /\ CrIdle /\ BtIdle /\ RunIdle /\ SuIdle

SpecPages == InitPages /\ [][PgNext]_vars

InitCount == CrInit /\ SelIdle /\ RtIdle /\ PgIdle /\ BtIdle /\ RunIdle /\ SuIdle

SpecCount == InitCount /\ [][CrNext]_vars

InitBatch == BtInit /\ SelIdle /\ RtIdle /\ PgIdle /\ CrIdle /\ RunIdle /\ SuIdle

SpecBatch == InitBatch /\ [][BtNext]_vars

Init == RunInit /\ SelIdle /\ RtIdle /\ PgIdle /\ CrIdle /\ BtIdle /\ SuIdle

Spec == Init /\ [][Next]_vars

InitCategory == CategoryInit /\ SelIdle /\ RtIdle /\ PgIdle /\ CrIdle /\ BtIdle /\ SuIdle

SpecCategory == InitCategory /\ [][Next]_vars

InitUploads == SuInit /\ SelIdle /\ RtIdle /\ PgIdle /\ CrIdle /\ BtIdle /\ RunIdle

SpecUploads == InitUploads /\ [][SuNext]_vars

\* C1: _pick_balanced_channels returns at most target rows, and every returned row
\* is a row of the candidate table, whether or not the backfill step ran.
C1_AtMostTargetNoFabrication ==
    sel_pc = "done" =>
        /\ Len(selected) <= target
        /\ \A i \in 1..Len(selected) : \E p \in 1..Len(df) : selected[i] = df[p]

\* C1 witness: a call that backfilled and returned exactly target > 0 rows.
C1_Witness ==
    /\ sel_pc = "done"
    /\ target > 0
    /\ Len(chosen) < target
    /\ Len(selected) = target

\* C2: with pairwise distinct channel ids in the candidate table, the returned table
\* holds no channel id more than once.
C2_NoDuplicateIds ==
    sel_pc = "done" =>
        \A i, j \in 1..Len(selected) : selected[i].id = selected[j].id => i = j

\* C3: a request that fails k <= max_retries times with a transient status and then
\* succeeds is returned its response after exactly k+1 attempts and exactly k sleeps,
\* one sleep between consecutive attempts; the wrapper never gives up while the
\* failures so far are transient and fewer than max_retries + 1.
C3_RetryThenSuccess ==
    /\ Len(sleeps) <= Len(history)
    /\ Len(history) <= Len(sleeps) + 1
    /\ rt_pc = "returned" =>
          \E k \in 0..max_retries :
             /\ Len(history) = k + 1
             /\ \A i \in 1..k : history[i] \in {403, 500, 503}
             /\ history[k + 1] = Ok
             /\ rt_result = Response
             /\ Len(sleeps) = k
    /\ (rt_pc = "raised" /\ \A i \in 1..Len(history) : history[i] \in {403, 500, 503})
          => Len(history) > max_retries

\* C3 witness: two transient failures, then success, with max_retries = 3.
C3_Witness ==
    /\ rt_pc = "returned"
    /\ max_retries = 3
    /\ history = <<503, 403, Ok>>
    /\ Len(sleeps) = 2

\* C4: a failure with a status outside (403, 500, 503) is re-raised on the attempt
\* where it occurs, with no retry and no sleep after it; a request whose every attempt
\* fails with a transient status is re-raised after max_retries + 1 attempts, and no
\* call makes more attempts than that.
C4_NoRetryBeyond ==
    /\ Len(history) <= Max(0, max_retries + 1)
    /\ \A i \in 1..Len(history) :
          history[i] \in {400, 401, 404, 429, NoStatus} =>
             /\ i = Len(history)
             /\ rt_pc = "raised"
             /\ rt_result = <<"HttpError", history[i]>>
             /\ Len(sleeps) = i - 1
    /\ (rt_pc = "raised" /\ history # <<>> /\ \A i \in 1..Len(history) : history[i] \in {403, 500, 503})
          => /\ Len(history) = max_retries + 1
             /\ Len(sleeps) = max_retries
             /\ rt_result = <<"HttpError", history[Len(history)]>>

\* C4 witness: a not-found after one retried failure, and no sleep after it.
C4_Witness ==
    /\ rt_pc = "raised"
    /\ history = <<500, 404>>
    /\ Len(sleeps) = 1

\* C4 second witness case: every attempt failed with a transient status.
C4_WitnessExhausted ==
    /\ rt_pc = "raised"
    /\ max_retries = 2
    /\ history = <<503, 503, 503>>

\* C5: the page requests are issued one after another, the first without a token and
\* each later one with the token of the previous response; no request follows a
\* response without a token and none is issued beyond the page cap; the operation
\* does not stop before one of the two happens; and what it returns is the items of
\* every page fetched, in page order. Reaching the cap returns normally.
C5_Pagination ==
    /\ Len(requests) <= max_pages
    /\ \A i \in 1..Len(requests) :
          requests[i] = IF i = 1 THEN None ELSE responses[i - 1].nextPageToken
    /\ \A i \in 1..Len(requests) : i > 1 => responses[i - 1].nextPageToken # None
    /\ pg_pc # "raised" => Len(responses) = Len(requests)
    /\ pg_pc = "returned" =>
          /\ \/ Len(responses) = max_pages
             \/ Len(responses) > 0 /\ responses[Len(responses)].nextPageToken = None
          /\ items = Concat([i \in 1..Len(responses) |->
                               IF responses[i].hasItems THEN responses[i].items ELSE <<>>])

\* C5 witness: the page cap ended a listing that still had a token, and the items of
\* all pages came back.
C5_Witness ==
    /\ pg_pc = "returned"
    /\ max_pages = 2
    /\ Len(responses) = 2
    /\ responses[2].nextPageToken # None
    /\ responses[1].nextPageToken # responses[2].nextPageToken
    /\ Len(items) = 3

\* The field that decides an item: the content-specific one unless it is missing or
\* empty, then the snippet-level one.
C6_AllReturned == Len(returned) = Len(categories)

C6_AllNone == \A i \in 1..Len(returned) : returned[i].none

C6_NonNull == SelectSeq(returned, LAMBDA r : ~r.none)

C6_NonNullTables == [i \in 1..Len(C6_NonNull) |-> C6_NonNull[i].rows]

C6_CombinedWritten ==
    \E i \in 1..Len(writes) :
        writes[i].dir = "channel_selection" /\ writes[i].name = "all_categories"

\* C6 as claimed: discover_channels fails as a whole only if every configured category
\* yielded no result, so a run that has raised has processed every category and each
\* of them returned None.
C6_FailsOnlyIfAllEmpty ==
    run_pc = "raised" => C6_AllReturned /\ C6_AllNone

\* C6 as amended: a category that returns None does not stop the run: the run raises
\* "No channels selected" only after every category was processed and each returned
\* None, and a run that completes has processed every category and returns and writes
\* the concatenation of the non-null results in category order. A request failure that
\* _execute re-raises inside a category is not caught: it ends the run at that
\* category, the categories after it unprocessed and no combined table written.
C6_EmptyCategoryNonFatal ==
    /\ run_selections = C6_NonNullTables
    /\ run_error = "RuntimeError" => run_pc = "raised" /\ C6_AllReturned /\ C6_AllNone
    /\ run_pc = "done" =>
          /\ run_error = None
          /\ C6_AllReturned
          /\ ~C6_AllNone
          /\ final_df = Concat(C6_NonNullTables)
          /\ writes[Len(writes)] =
                [dir |-> "channel_selection", name |-> "all_categories", rows |-> final_df]
    /\ run_pc = "loop" => Len(returned) = cat_i /\ run_error = None
    /\ run_error = "HttpError" =>
          /\ run_pc = "raised"
          /\ Len(returned) = cat_i - 1
          /\ final_df = <<>>
          /\ ~C6_CombinedWritten

\* C6 witness: the first of two categories returned None, the second was still
\* processed, and the combined table is the second category's non-empty result.
C6_Witness ==
    /\ run_pc = "done"
    /\ Len(returned) = 2
    /\ returned[1].none
    /\ ~returned[2].none
    /\ returned[2].rows # <<>>
    /\ final_df = returned[2].rows

\* C6 second witness case: a request failed in the second category after the first
\* one had given a result.
C6_WitnessAborted ==
    /\ run_error = "HttpError"
    /\ cat_i = 2
    /\ Len(run_selections) = 1

C7_SelectionWritten ==
    \E i \in 1..Len(writes) : writes[i].dir = "channel_selection"

C7_AllEmpty == Len(returned) = Len(categories) /\ \A i \in 1..Len(returned) : returned[i].none

\* C7: once every category has returned None (no search hits, no channel passing the
\* eligibility filter, or none passing the activity filter), the only thing the run
\* does is raise RuntimeError, and no per-category and no combined selection
\* artifact has been written.
C7_AllEmptyRaises ==
    /\ [](C7_AllEmpty =>
            /\ ~C7_SelectionWritten
            /\ run_pc \in {"loop", "raised"}
            /\ run_pc = "raised" => run_error = "RuntimeError")
    /\ [][C7_AllEmpty => run_pc' = "raised" /\ run_error' = "RuntimeError" /\ writes' = writes]_vars

\* C7 witness: two categories, one that got as far as the activity filter, both
\* returned None and the run raised.
C7_Witness ==
    /\ C7_AllEmpty
    /\ Len(categories) = 2
    /\ run_pc = "raised"
    /\ run_error = "RuntimeError"
    /\ \E i \in 1..Len(writes) : writes[i].dir = "uploads"
    /\ \E i \in 1..Len(writes) : writes[i].dir = "channels" /\ writes[i].name = "category_15"

\* The channels the lookup response listed without an uploads playlist: the key
\* absent, or null.
C8_Lacking ==
    {channel_meta[i].id : i \in {j \in 1..Len(channel_meta) :
                                    channel_meta[j].shape.uploads \in {"absent", "null"}}}

C8_Ids(rows) == {rows[i].id : i \in 1..Len(rows)}

C8_HavePlaylist(rows) == \A i \in 1..Len(rows) : rows[i].uploads_playlist_id # None

\* C8: whatever the channel lookup answered, a channel it listed without an uploads
\* playlist is not among the candidates the eligibility filter leaves, no playlist
\* request and no uploads file is made for it, and it is in no selection: every row
\* of the candidates, of the active channels and of every selection carries a
\* playlist id.
C8_NoPlaylistNeverEligible ==
    /\ C8_Lacking \cap (C8_Ids(candidates) \cup C8_Ids(activity_rows) \cup C8_Ids(cat_selected)) = {}
    /\ C8_HavePlaylist(candidates)
    /\ C8_HavePlaylist(activity_rows)
    /\ C8_HavePlaylist(cat_selected)
    /\ C8_HavePlaylist(final_df)
    /\ \A i \in 1..Len(returned) : C8_HavePlaylist(returned[i].rows)
    /\ \A i \in 1..Len(run_selections) : C8_HavePlaylist(run_selections[i])
    /\ \A i \in 1..Len(playlist_requests) : playlist_requests[i] # None
    /\ \A i \in 1..Len(writes) :
          /\ writes[i].dir = "uploads" => writes[i].name \notin C8_Lacking
          /\ writes[i].dir = "channel_selection" => C8_HavePlaylist(writes[i].rows)

\* C8 witness: the lookup listed two channels with enough subscribers in the US, one
\* of them with a null uploads playlist; one playlist request was made and the
\* selection holds the other channel only.
C8_Witness ==
    /\ dc_pc = "persist_selection"
    /\ Len(channel_meta) = 2
    /\ \A i \in 1..Len(channel_meta) :
          channel_meta[i].shape.subscriberCount = "10000" /\ channel_meta[i].shape.country = "US"
    /\ \E i \in 1..Len(channel_meta) : channel_meta[i].shape.uploads = "null"
    /\ Len(playlist_requests) = 1
    /\ Len(cat_selected) = 1
    /\ cat_selected[1].id \notin C8_Lacking

\* The video ids the first k page responses carry.
C11_IdsInPages(k) ==
    SelectSeq(Concat(SubSeq(su_responses, 1, k)), LAMBDA item : item.videoId # NoVideoId)

\* C11: search_channel_uploads returns at most limit video ids, in playlist order, and
\* requests no further playlist page once the pages already fetched hold limit video
\* ids.
C11_AtMostLimitStopsEarly ==
    /\ su_pc = "returned" =>
          /\ Len(su_video_ids) <= limit
          /\ \A i \in 1..Len(su_video_ids) :
                su_video_ids[i] = C11_IdsInPages(Len(su_responses))[i].videoId
    /\ \A k \in 2..Len(su_requests) : Len(C11_IdsInPages(k - 1)) < limit

\* How far _discover_category has come: SEARCH 1, its write 2, DEDUP_CHANNEL_IDS 3,
\* OVERFETCH_LOOKUP 4, its write 5, FILTER_ELIGIBLE 6, ACTIVITY_CHECK 7, PERSIST (after
\* SELECT_BALANCED) 8, left 9.
C12_Stage ==
    CASE dc_pc = "search" -> 1
      [] dc_pc = "persist_search" -> 2
      [] dc_pc = "dedup" -> 3
      [] dc_pc = "lookup" -> 4
      [] dc_pc = "persist_channels" -> 5
      [] dc_pc = "filter" -> 6
      [] dc_pc = "activity" -> 7
      [] dc_pc = "persist_selection" -> 8
      [] dc_pc \in {"returned", "raised"} -> 9
      [] OTHER -> IF cat_i = 0 THEN 0 ELSE 9

C12_SearchWrite == [dir |-> "search", name |-> CategoryFile(Category), rows |-> search_items]

C12_ChannelsWrite == [dir |-> "channels", name |-> CategoryFile(Category), rows |-> channels_df]

C12_SelectionWrite ==
    [dir |-> "channel_selection", name |-> CategoryFile(Category), rows |-> cat_selected]

\* What has been written by the time the category is at a stage.
C12_Persisted ==
    /\ C12_Stage \in 1..2 => writes = <<>>
    /\ C12_Stage < 3 => channel_ids = <<>>
    /\ (C12_Stage \in 3..8 \/ dc_pc = "returned") => Len(writes) >= 1 /\ writes[1] = C12_SearchWrite
    /\ C12_Stage \in 3..5 => Len(writes) = 1
    /\ C12_Stage < 6 => candidates = <<>> /\ playlist_requests = <<>>
    /\ C12_Stage \in 6..8 =>
          /\ Len(writes) >= 2
          /\ writes[2] = C12_ChannelsWrite
          /\ channels_df = NormalizeChannels(channel_meta, Category)
    /\ C12_Stage = 6 => Len(writes) = 2
    /\ C12_Stage \in 7..8 =>
          /\ Len(writes) = 2 + act_i
          /\ Len(playlist_requests) = act_i
          /\ \A i \in 1..act_i :
                /\ writes[2 + i].dir = "uploads"
                /\ writes[2 + i].name = candidates[i].id
                /\ playlist_requests[i] = candidates[i].uploads_playlist_id
    /\ C12_Stage < 8 => cat_selected = <<>>
    /\ C12_Stage = 8 => act_i = Len(candidates)
    /\ (dc_pc = "returned" /\ ~cat_none) =>
          /\ Len(writes) = 3 + Len(candidates)
          /\ writes[Len(writes)] = C12_SelectionWrite
    /\ (dc_pc = "returned" /\ cat_none) =>
          \A i \in 1..Len(writes) : writes[i].dir # "channel_selection"

\* The stages follow one another: a step stays in its stage, enters the next one, or
\* leaves the category; a category is left with None only from DEDUP_CHANNEL_IDS,
\* FILTER_ELIGIBLE or ACTIVITY_CHECK, and with a selection only from PERSIST.
C12_Order ==
    /\ \/ C12_Stage' = C12_Stage
       \/ C12_Stage' = C12_Stage + 1
       \/ dc_pc' \in {"returned", "raised"}
    /\ (dc_pc' = "returned" /\ dc_pc # "returned") =>
          /\ dc_pc \in {"dedup", "filter", "activity", "persist_selection"}
          /\ cat_none' <=> dc_pc # "persist_selection"
    /\ (dc_pc' = "raised" /\ dc_pc # "raised") => dc_pc \in {"search", "lookup", "activity"}

\* C12: _discover_category runs SEARCH, DEDUP_CHANNEL_IDS, OVERFETCH_LOOKUP,
\* FILTER_ELIGIBLE, ACTIVITY_CHECK, SELECT_BALANCED, PERSIST in that order, none
\* entered twice, and what it writes is written before it is used: the search result
\* as received before any channel id is extracted, the channel metadata before the
\* eligibility filter, the playlist items of every candidate visited whether or not
\* it is active, and the selection before it is returned.
C12_StagesInOrderPersisted ==
    [] C12_Persisted /\ [][C12_Order]_vars

\* C12 witness: a category returned a selection after two candidates were checked,
\* one of them not active; five artifacts were written, the uploads of both
\* candidates among them.
C12_Witness ==
    /\ dc_pc = "returned"
    /\ ~cat_none
    /\ Len(candidates) = 2
    /\ Len(activity_rows) = 1
    /\ Len(writes) = 5
    /\ writes[3].dir = "uploads"
    /\ writes[4].dir = "uploads"
    /\ cat_selected # <<>>

\* The distinct channel ids the search result carries.
C13_Found == {search_items[i].channelId : i \in 1..Len(search_items)} \ {None}

\* C13: from OVERFETCH_LOOKUP on, the ids channel metadata is requested for are all
\* the deduplicated channel ids of the search, whatever per_category and
\* overfetch_factor are: their number is the number of distinct channel ids found,
\* and so is the number of lookup batches of MAX_IDS_PER_CALL ids.
C13_TruncationKeepsAll ==
    (C12_Stage \in 5..8 \/ lookup_ids # <<>>) =>
        /\ lookup_ids = channel_ids
        /\ lookup_ids = DedupChannelIds(search_items)
        /\ Len(lookup_ids) = Cardinality(C13_Found)
        /\ Range(lookup_ids) = C13_Found
        /\ (Len(lookup_ids) + MAX_IDS_PER_CALL - 1) \div MAX_IDS_PER_CALL
              = (Cardinality(C13_Found) + MAX_IDS_PER_CALL - 1) \div MAX_IDS_PER_CALL

\* C13 witness: the search found two channels, per_category * overfetch_factor is
\* one, and metadata was requested for both.
C13_Witness ==
    /\ dc_pc = "persist_channels"
    /\ per_category * overfetch_factor = 1
    /\ Len(channel_ids) = 2
    /\ Len(lookup_ids) = 2

C9_Deciding(item) ==
    IF item.videoPublishedAt.kind \in {"absent", "empty"} THEN item.publishedAt
    ELSE item.videoPublishedAt

\* The items whose deciding field is a timestamp at or after now - lookback days.
C9_Recent ==
    {i \in 1..Len(uploads) :
        /\ C9_Deciding(uploads[i]).kind \in {"isoZ", "isoOffset"}
        /\ C9_Deciding(uploads[i]).local - C9_Deciding(uploads[i]).offset
              >= now - 24 * lookback_days}

\* C9: _count_recent_uploads counts exactly the items whose publish timestamp
\* (content-specific field first, snippet-level field as fallback) resolves to an
\* instant at or after now - lookback days: none before the cutoff is counted, every
\* one at or after it is, items without a resolvable timestamp are skipped, and the
\* returned ids are those of the counted items that carry one, in input order.
C9_CountsExactlyRecent ==
    cr_pc = "returned" =>
        /\ count = Cardinality(C9_Recent)
        /\ Len(video_ids) = Cardinality({i \in C9_Recent : uploads[i].videoId # 0})
        /\ \A k \in 1..Len(video_ids) : video_ids[k] \in C9_Recent
        /\ \A k \in 1..Len(video_ids) : uploads[video_ids[k]].videoId = video_ids[k]
        /\ \A k \in 1..(Len(video_ids) - 1) : video_ids[k] < video_ids[k + 1]

\* C9 witness: one item exactly at the cutoff through the snippet fallback was
\* counted, one before the cutoff and one without a resolvable timestamp were not.
C9_Witness ==
    /\ cr_pc = "returned"
    /\ lookback_days = 1
    /\ Len(uploads) = 2
    /\ uploads[1].videoPublishedAt.kind = "garbage"
    /\ uploads[1].publishedAt.kind # "absent"
    /\ uploads[2].videoPublishedAt.kind = "isoZ"
    /\ uploads[2].videoPublishedAt.local = threshold
    /\ count = 1
    /\ video_ids = <<2>>

\* The identifiers of the input that are not empty, with their repetitions.
C10_NonEmpty == SelectSeq(input_ids, LAMBDA x : x # 0)

\* C10 as claimed: a call that returns has issued exactly
\* ceil(len(distinct nonempty ids) / 50) requests.
C10_RequestsPerDistinctIds ==
    bt_pc = "returned" =>
        Len(bt_requests) = (Cardinality(Range(C10_NonEmpty)) + 49) \div 50

\* C10 as amended: a call that returns has issued exactly ceil(len(nonempty ids) / 50)
\* requests, repeated identifiers counted as often as they occur; every request
\* holds between 1 and 50 identifiers, none of them empty; the requests together are
\* the nonempty identifiers in input order; and the result is the concatenation of
\* the responses' items in request order.
C10_RequestsPerNonEmptyIds ==
    /\ \A k \in 1..Len(bt_requests) :
          /\ Len(bt_requests[k]) \in 1..50
          /\ \A j \in 1..Len(bt_requests[k]) : bt_requests[k][j] # 0
    /\ bt_pc = "returned" =>
          /\ Len(bt_requests) = (Len(C10_NonEmpty) + 49) \div 50
          /\ Concat(bt_requests) = C10_NonEmpty
          /\ results = Concat(bt_responses)

\* C10 witness: 101 identifiers with empty ones among them, two chunks requested,
\* both answered with items.
C10_Witness ==
    /\ bt_pc = "returned"
    /\ Len(input_ids) = 101
    /\ Len(C10_NonEmpty) < 101
    /\ Len(bt_requests) = 2
    /\ Len(bt_requests[1]) = 50
    /\ Len(results) = Len(C10_NonEmpty)
====
